---- MODULE Spec2Model ----
(***************************************************************************)
(* TiffPixelSource (src/src/loaders/tiff/pixel-source.ts): tile extent     *)
(* arithmetic, the decode normalisation of _readRasters, the getRaster and *)
(* getTile calls with their cancellation signal, and the concurrent volume *)
(* assembly of getVolume.                                                  *)
(*                                                                         *)
(* A sample is an integer, except the elements of a Uint32Array, which are *)
(* records [hi, lo] of two 16-bit limbs (value hi * 2^16 + lo).  Float32   *)
(* samples are the integer-valued floats.                                  *)
(***************************************************************************)
EXTENDS Integers, Sequences, FiniteSets, TLC

\* ------------------------------------------------------------------ bounds
MaxSide == 4
MaxTileSize == 3
MaxDepth == 4
MaxDownsample == 2
MaxVolSide == 2
Bands == 2

VARIABLES
    source,        \* the TiffPixelSource fields: dtype, tileSize, shape, labels
    image,         \* what the decode capability holds: the array kind it returns
    request,       \* the arguments of the one call under study
    pc,            \* position of the getRaster / getTile / getVolume call
    aborted,       \* signal.aborted
    abortedAt,     \* the position of the call at which the signal fired
    local,         \* getTile's locals: extent and window
    indexerCalls,  \* the selections passed to this._indexer, in call order
    decodeCalls,   \* the props passed to image.readRasters, in call order
    outcome,       \* what the call's promise settled with
    taskPc,        \* getVolume: position of every per-slice task
    progress,      \* getVolume: the progress counter, in units of 0.5
    reported,      \* getVolume: the values passed to updateProgress, in order
    view,          \* getVolume: the destination DataView, by element
    writers,       \* getVolume: per destination element, the tasks that wrote it
    events,        \* getVolume: per task, what it did, in order
    decoded        \* the rasters image.readRasters resolved with (getVolume: per task)

vars == <<source, image, request, pc, aborted, abortedAt, local, indexerCalls,
          decodeCalls, outcome, taskPc, progress, reported, view, writers,
          events, decoded>>

volumeVars == <<taskPc, progress, reported, view, writers, events, decoded>>

\* ------------------------------------------------------------ typed arrays
Width(kind) ==
    CASE kind \in {"Int8", "Uint8"} -> 8
      [] kind \in {"Int16", "Uint16"} -> 16
      [] OTHER -> 32

IsSigned(kind) == kind \in {"Int8", "Int16", "Int32"}

BytesPerElement(dtype) == Width(dtype) \div 8

\* The (dtype, decoded array kind) pairs the loader produces: an unsigned
\* dtype over the unsigned or signed array of its width, Float32 over a
\* Float32Array or over the Uint32Array geotiff returns for 32-bit samples.
DtypeKinds ==
    { <<"Uint8", "Uint8">>, <<"Uint8", "Int8">>,
      <<"Uint16", "Uint16">>, <<"Uint16", "Int16">>,
      <<"Uint32", "Uint32">>, <<"Uint32", "Int32">>,
      <<"Float32", "Float32">>, <<"Float32", "Uint32">> }

U32(h, l) == [hi |-> h, lo |-> l]

\* ToUint8 / ToUint16 / ToUint32 of an integer: the value modulo 2^w.
ToUint8(v) == v % 256
ToUint16(v) == v % 65536
ToUint32(v) ==
    IF v >= 0
    THEN U32(v \div 65536, v % 65536)
    ELSE LET m == -(v + 1)
         IN  U32(65535 - (m \div 65536), 65535 - (m % 65536))

\* The IEEE-754 single whose bit pattern is the Uint32 u (normal numbers with
\* an integer value, and zero).
FloatOfBits(u) ==
    LET sign == u.hi \div 32768
        e == (u.hi % 32768) \div 128
        m == (u.hi % 128) * 65536 + u.lo
        mag == IF e = 0 THEN 0 ELSE (8388608 + m) \div (2 ^ (150 - e))
    IN  IF sign = 1 THEN -mag ELSE mag

\* Sample values the decode capability may produce, per array kind.
Samples(dtype, kind) ==
    CASE kind = "Int8" -> <<-1, 5, -128>>
      [] kind = "Uint8" -> <<0, 7, 255>>
      [] kind = "Int16" -> <<-1, 5, -32768>>
      [] kind = "Uint16" -> <<0, 7, 65535>>
      [] kind = "Int32" -> <<-1, 5, -2147483647>>
      [] kind = "Uint32" /\ dtype = "Float32" ->
            <<U32(49216, 0), U32(16544, 0), U32(0, 0)>>   \* -3.0, 5.0, 0.0
      [] kind = "Uint32" -> <<U32(65535, 65535), U32(0, 7), U32(0, 0)>>
      [] kind = "Float32" -> <<-3, 5, 0>>

\* Two arrays of length len over those samples, the second the first
\* shifted by one sample.
SampleArrays(dtype, kind, len) ==
    LET vals == Samples(dtype, kind)
        n == Len(vals)
    IN  { [r \in 0 .. len - 1 |-> vals[((r + s) % n) + 1]] : s \in 0 .. 1 }

\* ------------------------------------------------------------- ../utils
isInterleaved(src) == src.interleaved

getImageSize(src) ==
    LET n == Len(src.shape)
    IN  [height |-> src.shape[n - 1], width |-> src.shape[n]]

\* -------------------------------------------------------- _getTileExtent
GetTileExtent(src, x, y) ==
    LET zoomLevelHeight == getImageSize(src).height
        zoomLevelWidth == getImageSize(src).width
        maxXTileCoord == zoomLevelWidth \div src.tileSize
        maxYTileCoord == zoomLevelHeight \div src.tileSize
    IN  [height |-> IF y = maxYTileCoord
                    THEN zoomLevelHeight % src.tileSize ELSE src.tileSize,
         width |-> IF x = maxXTileCoord
                   THEN zoomLevelWidth % src.tileSize ELSE src.tileSize]

TileWindow(src, x, y) ==
    LET ext == GetTileExtent(src, x, y)
        x0 == x * src.tileSize
        y0 == y * src.tileSize
    IN  <<x0, y0, x0 + ext.width, y0 + ext.height>>

\* ---------------------------------------------------------- _readRasters
NoProps == [given |-> FALSE, window |-> <<>>, width |-> 0, height |-> 0,
            signal |-> FALSE]

\* The options object handed to image.readRasters.
RasterOptions(src, props) ==
    [interleave |-> isInterleaved(src), given |-> props.given,
     window |-> props.window, width |-> props.width, height |-> props.height,
     signal |-> props.signal]

\* The decode capability: the rasters image.readRasters may resolve with.
Rasters(src, img, opts) ==
    LET w == IF opts.given THEN opts.width ELSE getImageSize(src).width
        h == IF opts.given THEN opts.height ELSE getImageSize(src).height
    IN  IF opts.interleave
        THEN { [width |-> w, height |-> h, kind |-> img.kind, samples |-> a] :
                 a \in SampleArrays(src.dtype, img.kind, w * h * Bands) }
        ELSE { [width |-> w, height |-> h, kind |-> img.kind,
                samples |-> [b \in 1 .. Bands |->
                               [r \in DOMAIN a |-> a[(r + b - 1) % (w * h)]]]] :
                 a \in SampleArrays(src.dtype, img.kind, w * h) }

\* data = interleave ? raster : raster[0]
RasterData(interleave, raster) ==
    IF interleave THEN raster.samples ELSE raster.samples[1]

\* new Float32Array(data.buffer): the same bytes viewed as floats.
Float32View(kind, data) ==
    CASE kind = "Float32" -> data
      [] kind = "Uint32" -> [r \in DOMAIN data |-> FloatOfBits(data[r])]
      [] kind = "Int32" -> [r \in DOMAIN data |-> FloatOfBits(ToUint32(data[r]))]

\* new Uint{8,16,32}Array(data) of an Int{8,16,32}Array: element conversion.
CastToUintWrong(kind, v) == IF v < 0 THEN 0 ELSE v
CastToUint(kind, v) ==
    CASE kind = "Int8" -> ToUint8(v)
      [] kind = "Int16" -> ToUint16(v)
      [] kind = "Int32" -> ToUint32(v)

UintName(kind) ==
    CASE kind = "Int8" -> "Uint8"
      [] kind = "Int16" -> "Uint16"
      [] kind = "Int32" -> "Uint32"

\* Lines 111-136: the typed array handed back, with its element kind.
Normalise(dtype, interleave, raster) ==
    LET data0 == RasterData(interleave, raster)
        k1 == IF dtype = "Float32" THEN "Float32" ELSE raster.kind
        data1 == IF dtype = "Float32"
                 THEN Float32View(raster.kind, data0) ELSE data0
        k2 == IF IsSigned(k1) THEN UintName(k1) ELSE k1
        data2 == IF IsSigned(k1)
                 THEN [r \in DOMAIN data1 |-> CastToUint(k1, data1[r])]
                 ELSE data1
    IN  [data |-> data2, kind |-> k2, width |-> raster.width,
         height |-> raster.height]

\* if (props?.signal?.aborted) throw SIGNAL_ABORTED
SignalAbortedNever(opts, isAborted) == FALSE
SignalAborted(opts, isAborted) == opts.signal /\ isAborted

Pending == [status |-> "pending"]
Failed(err) == [status |-> "error", error |-> err]
Returned(layer) == [status |-> "result", value |-> layer]

\* The settlement of _readRasters once image.readRasters has resolved.
ReadRastersResult(src, opts, raster, isAborted) ==
    IF SignalAborted(opts, isAborted)
    THEN Failed("SIGNAL_ABORTED")
    ELSE Returned(Normalise(src.dtype, opts.interleave, raster))

\* ------------------------------------------------------------ selections
Range(f) == { f[i] : i \in DOMAIN f }

\* The selections a caller may pass: one that satisfies the data-model
\* invariant, one with an index outside the shape, one with a key missing.
Selections(shape) ==
    { [z |-> 0, y |-> 0, x |-> 0],
      [z |-> 0, y |-> shape[2], x |-> 0],
      [y |-> 0, x |-> 0] }

\* The sources over planes of the given <<height, width>> sizes and layouts.
Sources(sizes, depths, tileSizes, layouts) ==
    { [dtype |-> dk[1], tileSize |-> t, shape |-> <<dp, hw[1], hw[2]>>,
       labels |-> <<"z", "y", "x">>, interleaved |-> il] :
        dk \in DtypeKinds, t \in tileSizes, dp \in depths,
        hw \in sizes, il \in layouts }

\* The image behind a source returns the array kind paired with its dtype.
Images(src) == { [kind |-> dk[2]] : dk \in { p \in DtypeKinds : p[1] = src.dtype } }

NoLocal == [extent |-> [height |-> 0, width |-> 0], window |-> <<>>]

CallInit ==
    /\ pc = "start"
    /\ aborted = FALSE
    /\ abortedAt = "none"
    /\ local = NoLocal
    /\ indexerCalls = <<>>
    /\ decodeCalls = <<>>
    /\ outcome = Pending

VolumeIdle ==
    /\ taskPc = <<>>
    /\ progress = 0
    /\ reported = <<>>
    /\ view = <<>>
    /\ writers = <<>>
    /\ events = <<>>
    /\ decoded = <<>>

\* ------------------------------------------------- getRaster and getTile
InitTile ==
    /\ source \in Sources((1 .. MaxSide) \X (1 .. MaxSide), {1},
                         1 .. MaxTileSize, BOOLEAN)
    /\ image \in Images(source)
    /\ request \in
         { [op |-> "getRaster", x |-> 0, y |-> 0, selection |-> sel,
            signal |-> FALSE, downsampleDepth |-> 1] :
             sel \in Selections(source.shape) }
         \cup
         { [op |-> "getTile", x |-> tx, y |-> ty, selection |-> sel,
            signal |-> sg, downsampleDepth |-> 1] :
             tx \in 0 .. (getImageSize(source).width \div source.tileSize),
             ty \in 0 .. (getImageSize(source).height \div source.tileSize),
             sel \in Selections(source.shape), sg \in BOOLEAN }
    /\ CallInit
    /\ VolumeIdle

\* The props getTile / getRaster hand to _readRasters.
CallProps ==
    IF request.op = "getTile"
    THEN [given |-> TRUE, window |-> local.window, width |-> local.extent.width,
          height |-> local.extent.height, signal |-> request.signal]
    ELSE NoProps

\* getRaster up to its first await: the Indexer is called with the selection.
GetRaster ==
    /\ pc = "start"
    /\ request.op = "getRaster"
    /\ indexerCalls' = Append(indexerCalls, request.selection)
    /\ pc' = "indexing"
    /\ UNCHANGED <<source, image, request, aborted, abortedAt, local,
                   decodeCalls, outcome>>
    /\ UNCHANGED volumeVars

\* getTile up to its first await: extent, window, then the Indexer call.
GetTile ==
    /\ pc = "start"
    /\ request.op = "getTile"
    /\ local' = [extent |-> GetTileExtent(source, request.x, request.y),
                 window |-> TileWindow(source, request.x, request.y)]
    /\ indexerCalls' = Append(indexerCalls, request.selection)
    /\ pc' = "indexing"
    /\ UNCHANGED <<source, image, request, aborted, abortedAt, decodeCalls,
                   outcome>>
    /\ UNCHANGED volumeVars

\* The Indexer resolves: _readRasters starts and calls image.readRasters.
IndexerResolve ==
    /\ pc = "indexing"
    /\ decodeCalls' = Append(decodeCalls, RasterOptions(source, CallProps))
    /\ pc' = "decoding"
    /\ UNCHANGED <<source, image, request, aborted, abortedAt, local,
                   indexerCalls, outcome>>
    /\ UNCHANGED volumeVars

\* The Indexer rejects: the await in getRaster / getTile throws.
IndexerReject ==
    /\ pc = "indexing"
    /\ outcome' = Failed("NotFound")
    /\ pc' = "done"
    /\ UNCHANGED <<source, image, request, aborted, abortedAt, local,
                   indexerCalls, decodeCalls>>
    /\ UNCHANGED volumeVars

\* image.readRasters resolves: the signal check, then the normalisation.
DecodeResolve ==
    /\ pc = "decoding"
    /\ \E raster \in Rasters(source, image, decodeCalls[Len(decodeCalls)]) :
         /\ decoded' = <<raster>>
         /\ outcome' = ReadRastersResult(source, decodeCalls[Len(decodeCalls)],
                                         raster, aborted)
    /\ pc' = "done"
    /\ UNCHANGED <<source, image, request, aborted, abortedAt, local,
                   indexerCalls, decodeCalls>>
    /\ UNCHANGED <<taskPc, progress, reported, view, writers, events>>

\* image.readRasters rejects: the error propagates unchanged.
DecodeReject ==
    /\ pc = "decoding"
    /\ outcome' = Failed("DecodeFailure")
    /\ pc' = "done"
    /\ UNCHANGED <<source, image, request, aborted, abortedAt, local,
                   indexerCalls, decodeCalls>>
    /\ UNCHANGED volumeVars

\* The caller fires the cancellation signal it attached to the request.
SignalAbort ==
    /\ request.signal
    /\ ~aborted
    /\ pc # "done"
    /\ aborted' = TRUE
    /\ abortedAt' = pc
    /\ UNCHANGED <<source, image, request, pc, local, indexerCalls,
                   decodeCalls, outcome>>
    /\ UNCHANGED volumeVars

NextTile ==
    \/ GetRaster
    \/ GetTile
    \/ IndexerResolve
    \/ IndexerReject
    \/ DecodeResolve
    \/ DecodeReject
    \/ SignalAbort

SpecTile == InitTile /\ [][NextTile]_vars

\* -------------------------------------------------------------- getVolume
IndexOf(seq, e) == CHOOSE i \in 1 .. Len(seq) : seq[i] = e

Depth(src) == src.shape[IndexOf(src.labels, "z")]

DepthDownsampled(src, req) == Depth(src) \div req.downsampleDepth

RasterSize(src) == getImageSize(src).height * getImageSize(src).width

\* { ...selection, z: z * downsampleDepth }
DepthSelection(sel, z, downsampleDepth) == ("z" :> z * downsampleDepth) @@ sel

\* A fresh ArrayBuffer holds zeroes.
Zero(dtype) == IF dtype = "Uint32" THEN U32(0, 0) ELSE 0

\* Math.max(0, data[r]) of an element of the normalised array.
MathMax0(kind, v) ==
    IF kind = "Uint32" THEN v ELSE IF v < 0 THEN 0 ELSE v

\* view.setUint8 / setUint16 / setUint32 / setFloat32 of that number.
SetMethod(dtype, v) ==
    CASE dtype = "Uint8" -> ToUint8(v)
      [] dtype = "Uint16" -> ToUint16(v)
      [] dtype = "Uint32" -> U32(v.hi % 65536, v.lo % 65536)
      [] dtype = "Float32" -> v

\* The byte offset a task writes element r of its slice at.
ByteOffsetForward(bytes, depthDownsampled, z, rasterSize, r) ==
    bytes * z * rasterSize + bytes * r
ByteOffset(bytes, depthDownsampled, z, rasterSize, r) ==
    bytes * (depthDownsampled - z - 1) * rasterSize + bytes * r

\* progress += 0.5, in units of 0.5
AddWhole(p) == p + 2
AddHalf(p) == p + 1

\* updateProgress(progress / depthDownsampled): the value num / den.
ProgressValue(p, depthDownsampled) == [num |-> p, den |-> 2 * depthDownsampled]

\* Lines 65-78, the steps a task runs once its decode has resolved.
SliceBlockReportLast(rasterSize) ==
    [i \in 1 .. rasterSize |-> [op |-> "write", r |-> i - 1]]
        \o <<[op |-> "progress"], [op |-> "progress"]>>
SliceBlock(rasterSize) ==
    <<[op |-> "progress"]>>
        \o [i \in 1 .. rasterSize |-> [op |-> "write", r |-> i - 1]]
        \o <<[op |-> "progress"]>>

\* One step of the block on st = [progress, reported, view, writers, events].
ExecStep(st, step, src, req, z, layer) ==
    IF step.op = "progress"
    THEN [st EXCEPT
            !.progress = AddHalf(st.progress),
            !.reported = Append(st.reported,
                                ProgressValue(AddHalf(st.progress),
                                              DepthDownsampled(src, req))),
            !.events = Append(st.events, "progress")]
    ELSE LET bytes == BytesPerElement(src.dtype)
             at == ByteOffset(bytes, DepthDownsampled(src, req), z,
                              RasterSize(src), step.r) \div bytes
         IN  [st EXCEPT
                !.view[at] = SetMethod(src.dtype,
                                       MathMax0(layer.kind, layer.data[step.r])),
                !.writers[at] = st.writers[at] \cup {z},
                !.events = Append(st.events, "write")]

RECURSIVE RunSteps(_, _, _, _, _, _)
RunSteps(st, steps, src, req, z, layer) ==
    IF steps = <<>> THEN st
    ELSE RunSteps(ExecStep(st, Head(steps), src, req, z, layer), Tail(steps),
                  src, req, z, layer)

\* Promise.all rejects with the first rejection; later ones change nothing.
RejectSwallowed(out, err) == out
Reject(out, err) == IF out.status = "pending" THEN Failed(err) ELSE out

\* Volumes are assembled from planar z-stacks of square planes.
InitVolume ==
    /\ source \in Sources({ <<n, n>> : n \in 1 .. MaxVolSide }, 1 .. MaxDepth,
                         {1}, {FALSE})
    /\ image \in Images(source)
    /\ request \in
         { [op |-> "getVolume", x |-> 0, y |-> 0, selection |-> sel,
            signal |-> FALSE, downsampleDepth |-> d] :
             sel \in { t \in Selections(source.shape) : "z" \in DOMAIN t },
             d \in 1 .. MaxDownsample }
    /\ CallInit
    /\ VolumeIdle

\* getVolume up to its await: the buffer is allocated and every task runs to
\* its first await, the Indexer call for its slice.
GetVolume ==
    /\ pc = "start"
    /\ request.op = "getVolume"
    /\ LET dd == DepthDownsampled(source, request)
           n == RasterSize(source) * dd
       IN  /\ view' = [i \in 0 .. n - 1 |-> Zero(source.dtype)]
           /\ writers' = [i \in 0 .. n - 1 |-> {}]
           /\ taskPc' = [z \in 0 .. dd - 1 |-> "indexing"]
           /\ events' = [z \in 0 .. dd - 1 |-> <<"indexer">>]
           /\ indexerCalls' =
                [i \in 1 .. dd |->
                   DepthSelection(request.selection, i - 1,
                                  request.downsampleDepth)]
    /\ progress' = 0
    /\ pc' = "joining"
    /\ UNCHANGED <<source, image, request, aborted, abortedAt, local,
                   decodeCalls, outcome, reported, decoded>>

\* The Indexer resolves for task z: _readRasters calls image.readRasters.
TaskIndexerResolve(z) ==
    /\ taskPc[z] = "indexing"
    /\ decodeCalls' = Append(decodeCalls, RasterOptions(source, NoProps))
    /\ events' = [events EXCEPT ![z] = Append(@, "decodeStart")]
    /\ taskPc' = [taskPc EXCEPT ![z] = "decoding"]
    /\ UNCHANGED <<source, image, request, pc, aborted, abortedAt, local,
                   indexerCalls, outcome, progress, reported, view, writers,
                   decoded>>

\* The Indexer rejects for task z: the task ends, Promise.all rejects.
TaskIndexerReject(z) ==
    /\ taskPc[z] = "indexing"
    /\ events' = [events EXCEPT ![z] = Append(@, "NotFound")]
    /\ taskPc' = [taskPc EXCEPT ![z] = "failed"]
    /\ outcome' = Reject(outcome, "NotFound")
    /\ pc' = "done"
    /\ UNCHANGED <<source, image, request, aborted, abortedAt, local,
                   indexerCalls, decodeCalls, progress, reported, view,
                   writers, decoded>>

\* The decode resolves for task z: normalisation, then the block of lines
\* 65-78, which runs to its end without an await.
TaskDecodeResolve(z) ==
    /\ taskPc[z] = "decoding"
    /\ \E raster \in Rasters(source, image, RasterOptions(source, NoProps)) :
       \E layer \in {Normalise(source.dtype, isInterleaved(source), raster)} :
       \E st \in {RunSteps([progress |-> progress, reported |-> reported,
                            view |-> view, writers |-> writers,
                            events |-> Append(events[z], "decodeEnd")],
                           SliceBlock(RasterSize(source)),
                           source, request, z, layer)} :
             /\ decoded' = (indexerCalls[z + 1].z :> raster) @@ decoded
             /\ progress' = st.progress
             /\ reported' = st.reported
             /\ view' = st.view
             /\ writers' = st.writers
             /\ events' = [events EXCEPT ![z] = st.events]
    /\ taskPc' = [taskPc EXCEPT ![z] = "done"]
    /\ UNCHANGED <<source, image, request, pc, aborted, abortedAt, local,
                   indexerCalls, decodeCalls, outcome>>

\* The decode rejects for task z: the task ends, Promise.all rejects.
TaskDecodeReject(z) ==
    /\ taskPc[z] = "decoding"
    /\ events' = [events EXCEPT ![z] = Append(@, "DecodeFailure")]
    /\ taskPc' = [taskPc EXCEPT ![z] = "failed"]
    /\ outcome' = Reject(outcome, "DecodeFailure")
    /\ pc' = "done"
    /\ UNCHANGED <<source, image, request, aborted, abortedAt, local,
                   indexerCalls, decodeCalls, progress, reported, view,
                   writers, decoded>>

\* Every task has finished: Promise.all resolves and getVolume returns.
GetVolumeReturn ==
    /\ pc = "joining"
    /\ \A z \in DOMAIN taskPc : taskPc[z] = "done"
    /\ outcome' = Returned([data |-> view,
                            height |-> getImageSize(source).height,
                            width |-> getImageSize(source).width,
                            depth |-> DepthDownsampled(source, request)])
    /\ pc' = "done"
    /\ UNCHANGED <<source, image, request, aborted, abortedAt, local,
                   indexerCalls, decodeCalls>>
    /\ UNCHANGED volumeVars

NextVolume ==
    \/ GetVolume
    \/ \E z \in DOMAIN taskPc : TaskIndexerResolve(z)
    \/ \E z \in DOMAIN taskPc : TaskIndexerReject(z)
    \/ \E z \in DOMAIN taskPc : TaskDecodeResolve(z)
    \/ \E z \in DOMAIN taskPc : TaskDecodeReject(z)
    \/ GetVolumeReturn

SpecVolume == InitVolume /\ [][NextVolume]_vars

\* ------------------------------------------- properties of getRaster / getTile
\* The data-model invariant of a Selection: its keys are exactly the labels
\* and every index is below the shape entry of its label.
ValidSelection(sel, src) ==
    /\ DOMAIN sel = Range(src.labels)
    /\ \A i \in 1 .. Len(src.labels) :
         sel[src.labels[i]] >= 0 /\ sel[src.labels[i]] < src.shape[i]

\* The extent the tile at coordinate c has along a dimension of size dim:
\* the tile size inside, the remainder in the last column or row, and the
\* full tile size when the division is exact.
FullOrRemainder(dim, t, c) ==
    IF c < dim \div t THEN t
    ELSE IF dim % t # 0 THEN dim % t ELSE t

\* C1: once getTile has computed its window, the tile's width is T inside,
\* W mod T in the last column when that is nonzero and T when it is zero,
\* the same for the height, and the window handed to the decode is
\* [x*T, y*T, x*T + width, y*T + height].
C1_TileExtent ==
    (request.op = "getTile" /\ pc # "start") =>
        LET t == source.tileSize
            w == FullOrRemainder(getImageSize(source).width, t, request.x)
            h == FullOrRemainder(getImageSize(source).height, t, request.y)
            win == <<request.x * t, request.y * t,
                     request.x * t + w, request.y * t + h>>
        IN  /\ local.extent = [height |-> h, width |-> w]
            /\ local.window = win
            /\ \A i \in 1 .. Len(decodeCalls) :
                 /\ decodeCalls[i].window = win
                 /\ decodeCalls[i].width = w
                 /\ decodeCalls[i].height = h

FiredInTime == abortedAt \in {"start", "indexing", "decoding"}

C5_InvalidSelectionRejected ==
    ~ValidSelection(request.selection, source) =>
        /\ indexerCalls = <<>>
        /\ decodeCalls = <<>>
        /\ (pc = "done" => outcome = Failed("InvalidSelection"))

\* out is the unsigned w-bit element with the bit pattern of the signed v.
SameBits(kind, v, out) ==
    CASE kind = "Int8" ->
            out \in 0 .. 255 /\ out = (IF v < 0 THEN v + 256 ELSE v)
      [] kind = "Int16" ->
            out \in 0 .. 65535 /\ out = (IF v < 0 THEN v + 65536 ELSE v)
      [] kind = "Int32" ->
            /\ out.hi \in 0 .. 65535
            /\ out.lo \in 0 .. 65535
            /\ IF v < 0
               THEN (out.hi - 65536) * 65536 + out.lo = v
               ELSE out.hi < 32768 /\ out.hi * 65536 + out.lo = v

StoredSample(src, raster, r) ==
    LET layer == Normalise(src.dtype, isInterleaved(src), raster)
    IN  SetMethod(src.dtype, MathMax0(layer.kind, layer.data[r]))

\* C2: no destination element is written by two tasks; a returned volume has
\* depth floor(depth / d) and width * height * depth elements, and its slice
\* k holds the samples of source slice (depth' - 1 - k) * d.
C2_VolumeLayout ==
    (request.op = "getVolume") =>
        /\ \A i \in DOMAIN writers : Cardinality(writers[i]) <= 1
        /\ (outcome.status = "result") =>
             LET dd == source.shape[1] \div request.downsampleDepth
                 rs == source.shape[2] * source.shape[3]
                 out == outcome.value
             IN  /\ out.depth = dd
                 /\ out.height = source.shape[2]
                 /\ out.width = source.shape[3]
                 /\ DOMAIN out.data = 0 .. (rs * dd - 1)
                 /\ \A k \in 0 .. dd - 1 :
                      LET from == (dd - 1 - k) * request.downsampleDepth
                      IN  /\ from \in DOMAIN decoded
                          /\ \A r \in 0 .. rs - 1 :
                               /\ writers[k * rs + r] = {dd - 1 - k}
                               /\ out.data[k * rs + r] =
                                    StoredSample(source, decoded[from], r)

C2_Witness ==
    /\ request.op = "getVolume"
    /\ outcome.status = "result"
    /\ request.downsampleDepth >= 2
    /\ outcome.value.depth >= 2
    /\ decoded[0] # decoded[request.downsampleDepth]
    /\ outcome.value.data[0] # outcome.value.data[RasterSize(source)]

FailedTasks == { z \in DOMAIN taskPc : taskPc[z] = "failed" }

\* C4: once the Indexer or the decode has failed for a slice, getVolume has
\* failed with the error of a failing slice and returns no VolumeResult,
\* whatever the other slices have written.
C4_FailureNoResult ==
    (request.op = "getVolume" /\ FailedTasks # {}) =>
        /\ outcome.status = "error"
        /\ outcome.error \in {"NotFound", "DecodeFailure"}
        /\ \E z \in FailedTasks : events[z][Len(events[z])] = outcome.error

C4_Witness ==
    /\ request.op = "getVolume"
    /\ \E z \in FailedTasks : events[z][Len(events[z])] = "DecodeFailure"
    /\ \E z \in FailedTasks : events[z][Len(events[z])] = "NotFound"
    /\ \E i \in DOMAIN writers : writers[i] # {}
    /\ outcome.status = "error"

\* The number a decoded element stands for.
Logical(dtype, kind, v) ==
    IF kind = "Uint32" /\ dtype = "Float32" THEN FloatOfBits(v) ELSE v

\* C6: every element of a returned volume is 0 where the decoded sample is
\* negative and the decoded sample otherwise, signed arrays included.
C6_NegativeClamped ==
    (request.op = "getVolume" /\ outcome.status = "result") =>
        LET dd == outcome.value.depth
            rs == RasterSize(source)
        IN  \A z \in 0 .. dd - 1 : \A r \in 0 .. rs - 1 :
              LET raster == decoded[z * request.downsampleDepth]
                  v == RasterData(isInterleaved(source), raster)[r]
                  out == outcome.value.data[(dd - 1 - z) * rs + r]
              IN  IF raster.kind = "Uint32" /\ source.dtype = "Uint32"
                  THEN out = v
                  ELSE LET n == Logical(source.dtype, raster.kind, v)
                       IN  out = (IF source.dtype = "Uint32"
                                  THEN ToUint32(IF n < 0 THEN 0 ELSE n)
                                  ELSE IF n < 0 THEN 0 ELSE n)

\* C7: a returned volume of depth' >= 1 slices has had 2 * depth' progress
\* values reported, each in [0, 1], each 0.5 / depth' above the one before,
\* the last one 1.
C7_Progress ==
    (request.op = "getVolume" /\ outcome.status = "result"
       /\ outcome.value.depth >= 1) =>
        LET dd == source.shape[1] \div request.downsampleDepth
        IN  /\ Len(reported) = 2 * dd
            /\ \A i \in 1 .. Len(reported) :
                 /\ reported[i].den = 2 * dd
                 /\ reported[i].num >= 0
                 /\ reported[i].num <= reported[i].den
            /\ \A i \in 1 .. Len(reported) - 1 :
                 reported[i + 1].num - reported[i].num = 1
            /\ reported[Len(reported)].num = reported[Len(reported)].den

C7_Witness ==
    /\ request.op = "getVolume"
    /\ outcome.status = "result"
    /\ outcome.value.depth >= 3
    /\ Len(reported) = 2 * outcome.value.depth

Positions(seq, e) == { i \in 1 .. Len(seq) : seq[i] = e }

\* C8 as stated: a task reports its first increment before its decode is
\* started and its second after its last write, and none between the end of
\* its decode and its first write.
C8_PreDecodePostWrite ==
    (request.op = "getVolume") =>
        \A z \in DOMAIN events :
            LET ev == events[z]
                p == Positions(ev, "progress")
            IN  p # {} =>
                  /\ \A i \in p : \A j \in Positions(ev, "write") :
                       (i < j) => \E s \in Positions(ev, "decodeStart") : i < s
                  /\ \A e \in Positions(ev, "decodeEnd") :
                       \A j \in Positions(ev, "write") :
                         ~ \E i \in p : e < i /\ i < j
                  /\ \E i \in p : \A j \in Positions(ev, "write") : j < i

\* C8 amended: a task reports its first increment after its decode has
\* completed and before its first write, and its second after its last
\* write; it reports nothing before its decode completes.
C8_PostDecodePostWrite ==
    (request.op = "getVolume") =>
        \A z \in DOMAIN events :
            IF taskPc[z] = "done"
            THEN events[z] =
                   <<"indexer", "decodeStart", "decodeEnd", "progress">>
                     \o [i \in 1 .. RasterSize(source) |-> "write"]
                     \o <<"progress">>
            ELSE Positions(events[z], "progress") = {}
                   /\ Positions(events[z], "write") = {}

C8_Witness ==
    /\ request.op = "getVolume"
    /\ RasterSize(source) >= 2
    /\ \E z \in DOMAIN taskPc : taskPc[z] = "done"
    /\ \E z \in DOMAIN taskPc : taskPc[z] = "decoding"

\* C10: once getVolume has settled, no Indexer call, decode call, buffer
\* write or progress report of its tasks follows.
C10_QuietAfterSettled ==
    [][(request.op = "getVolume" /\ outcome.status # "pending") =>
         UNCHANGED <<indexerCalls, decodeCalls, view, writers, reported>>]_vars

====
